---- MODULE Spec2Model ----
(***************************************************************************)
(* Service lifecycle and graceful shutdown of fautil:                      *)
(*   LifecycleManager   (fautil/service/lifecycle_manager.py)              *)
(*   HTTPServerManager  (fautil/service/http_server_manager.py)            *)
(*   ShutdownManager    (fautil/service/shutdown_manager.py)               *)
(*   APIService         (fautil/service/api_service.py)                    *)
(*                                                                         *)
(* Two specifications share the lifecycle manager's definitions:           *)
(*   SpecLM  the listener registry on its own: register, unregister and    *)
(*           trigger_event, the trigger stepping through the list one      *)
(*           listener call at a time;                                      *)
(*   Spec    the service: APIService.start/stop, the shutdown tasks of     *)
(*           ShutdownManager and HTTPServerManager.stop as asyncio tasks   *)
(*           that interleave at their await points.                        *)
(***************************************************************************)
EXTENDS Integers, Sequences, FiniteSets, TLC

(***************************************************************************)
(* Bounds of the model.                                                    *)
(***************************************************************************)
\* callbacks that can be registered in SpecLM: 1..MaxCallbacks
MaxCallbacks == 2
\* register, unregister and trigger_event calls made in one behaviour of SpecLM
MaxOps == 4
\* registrations made in one behaviour of SpecOrder
MaxOrderOps == 2
\* calls made from outside in one behaviour of Spec: of APIService.start, of
\* APIService.stop, of trigger_shutdown (by a signal or by the application),
\* of wait_for_shutdown and of cancel() on the shutdown task
MaxCalls == 3
\* requests in flight at once
MaxRequests == 1
\* handler functions of SpecEvents
MaxHandlers == 2
\* calls of APIView.setup, and items created, in one behaviour of SpecCbv
MaxSetups == 2
MaxItems == 2
\* startup hooks added, and startup events delivered, in one behaviour of
\* SpecHealth
MaxHooks == 2
MaxStartups == 2
\* calls of configure made in one behaviour of SpecConfig
MaxConfigures == 2
\* view classes, and calls made in one behaviour of SpecViews
MaxViews == 2
MaxViewOps == 6

(***************************************************************************)
(* LifecycleEventType, ComponentType                                       *)
(***************************************************************************)
LifecycleEventType ==
    { "pre_startup", "post_startup", "pre_shutdown", "post_shutdown",
      "pre_http_start", "post_http_start", "pre_http_stop", "post_http_stop",
      "pre_services_stop", "post_services_stop", "pre_cleanup", "post_cleanup",
      "pre_injector_creation", "post_injector_creation" }

ComponentType ==
    { "api", "db", "cache", "queue", "scheduler", "storage", "core", "other" }

\* the events register_event_listener and trigger_event treat as startup events
StartupEvents ==
    { "pre_startup", "post_startup", "pre_http_start", "post_http_start" }

\* the events _sort_listeners names in its first branch
SortStartupEvents ==
    StartupEvents \cup { "pre_injector_creation", "post_injector_creation" }

\* LifecycleManager._component_shutdown_priority
component_shutdown_priority ==
    [ api |-> 100, scheduler |-> 80, queue |-> 60, cache |-> 40,
      storage |-> 20, db |-> 10, core |-> 0, other |-> 50 ]

\* an absent optional argument is <<>>, a given one is <<v>>
None == << >>
Some(v) == << v >>

\* callback.__name__: two distinct callbacks may carry the same name
NameOf(cb) == cb \div 2

(***************************************************************************)
(* LifecycleEventListener.__init__                                         *)
(***************************************************************************)
LifecycleEventListener(callback, event_type, component_type, priority) ==
    [ id |-> callback, event_type |-> event_type,
      component_type |-> component_type, priority |-> priority,
      name |-> NameOf(callback) ]

(***************************************************************************)
(* list.sort(key=lambda x: (-x.priority, x.name)): a stable sort           *)
(***************************************************************************)
KeyLessAscending(a, b) ==
    \/ a.priority < b.priority
    \/ a.priority = b.priority /\ a.name < b.name

\* (-a.priority, a.name) < (-b.priority, b.name)
KeyLess(a, b) ==
    \/ a.priority > b.priority
    \/ a.priority = b.priority /\ a.name < b.name

RECURSIVE InsertSorted(_, _)
InsertSorted(s, x) ==
    IF s = << >> THEN << x >>
    ELSE IF KeyLess(x, Head(s)) THEN << x >> \o s
    ELSE << Head(s) >> \o InsertSorted(Tail(s), x)

RECURSIVE StableSort(_)
StableSort(s) ==
    IF s = << >> THEN << >>
    ELSE InsertSorted(StableSort(SubSeq(s, 1, Len(s) - 1)), s[Len(s)])

\* LifecycleManager._sort_listeners: both branches sort the same way
sort_listeners(table, event_type) ==
    IF event_type \in SortStartupEvents
    THEN [ table EXCEPT ![event_type] = StableSort(table[event_type]) ]
    ELSE [ table EXCEPT ![event_type] = StableSort(table[event_type]) ]

(***************************************************************************)
(* LifecycleManager.register_event_listener                                *)
(***************************************************************************)
DefaultPriorityNotReversed(event_type, component_type) ==
    component_shutdown_priority[component_type]

\* the priority of a listener registered without one
DefaultPriority(event_type, component_type) ==
    IF event_type \in StartupEvents
    THEN 100 - component_shutdown_priority[component_type]
    ELSE component_shutdown_priority[component_type]

register_event_listener(table, event_type, callback, component_type, priority) ==
    LET ct == IF component_type = None THEN "other" ELSE component_type[1]
        pr == IF priority = None THEN DefaultPriority(event_type, ct)
              ELSE priority[1]
        listener == LifecycleEventListener(callback, event_type, ct, pr)
        appended == [ table EXCEPT ![event_type] = Append(@, listener) ]
    IN  sort_listeners(appended, event_type)

\* LifecycleManager.register_listener_for_multiple_events
RECURSIVE register_listener_for_multiple_events(_, _, _, _, _)
register_listener_for_multiple_events(table, event_types, callback, component_type, priority) ==
    IF event_types = << >> THEN table
    ELSE register_listener_for_multiple_events(
             register_event_listener(table, Head(event_types), callback,
                                     component_type, priority),
             Tail(event_types), callback, component_type, priority)

(***************************************************************************)
(* LifecycleManager.unregister_event_listener                              *)
(***************************************************************************)
RECURSIVE WithoutCallback(_, _)
WithoutCallback(s, callback) ==
    IF s = << >> THEN << >>
    ELSE IF Head(s).id = callback THEN WithoutCallback(Tail(s), callback)
    ELSE << Head(s) >> \o WithoutCallback(Tail(s), callback)

\* the value returned: whether a listener was removed
unregister_changes(table, event_type, callback) ==
    Len(WithoutCallback(table[event_type], callback)) # Len(table[event_type])

unregister_event_listener(table, event_type, callback) ==
    IF unregister_changes(table, event_type, callback)
    THEN [ table EXCEPT ![event_type] = WithoutCallback(@, callback) ]
    ELSE table

\* LifecycleManager.__init__: no listener for any event
EmptyTable == [ e \in LifecycleEventType |-> << >> ]

\* LifecycleManager.get_listeners_for_event: a copy of the list
get_listeners_for_event(table, event_type) == table[event_type]

(***************************************************************************)
(* LifecycleManager.trigger_event walks the list object it read from the   *)
(* registry.  An iteration is that list object and the index of Python's   *)
(* list iterator; "live" says that the object is still the registry's      *)
(* entry: register_event_listener appends to and sorts the entry in place  *)
(* (a running iteration sees it), unregister_event_listener binds the      *)
(* entry to a new list (a running iteration keeps the old one).            *)
(***************************************************************************)
NoIter == [ ev |-> "none", list |-> << >>, idx |-> 0, live |-> FALSE ]

IterStart(table, event_type) ==
    [ ev |-> event_type, list |-> table[event_type], idx |-> 0, live |-> TRUE ]

IterHasNext(it) == it.idx < Len(it.list)
IterListener(it) == it.list[it.idx + 1]
IterAdvance(it) == [ it EXCEPT !.idx = @ + 1 ]

\* the iteration after the registry entry of event_type was sorted in place
IterAfterRegister(it, table, event_type) ==
    IF it.ev = event_type /\ it.live
    THEN [ it EXCEPT !.list = table[event_type] ]
    ELSE it

\* the iteration after the registry entry of event_type was (maybe) rebound
IterAfterUnregister(it, changed, event_type) ==
    IF it.ev = event_type /\ changed
    THEN [ it EXCEPT !.live = FALSE ]
    ELSE it

\* trigger_event lines 308-320: an exception of a listener is logged, and
\* re-raised for the startup events only
RaisesOut(event_type, outcome) ==
    outcome = "raise" /\ event_type \in StartupEvents

\* what a listener call can do: return, or raise an Exception
Outcomes == { "ok", "raise" }

VARIABLES
    listeners,      \* LifecycleManager._listeners
    lmIter,         \* SpecLM: the iteration of the trigger_event in progress
    lmState,        \* SpecLM: "idle", "running", "returned", "raised"
    lmCalls,        \* SpecLM: the listeners that trigger_event has invoked
    lmRegistered,   \* SpecLM: the listeners registered for the event at the call
    lmModified,     \* SpecLM: the event's list changed while the trigger ran
    lmOps,          \* SpecLM: calls made to the registry so far
    serverManager,  \* the class bound to HTTPServerManager in the injector
    started,        \* APIService._started
    stopping,       \* APIService._stopping
    startPc,        \* where the call of APIService.start is
    startIter,      \* the iteration of the trigger_event that start awaits
    startLog,       \* what the last call of APIService.start has done
    stopPc,         \* where the call of APIService.stop is
    stopLog,        \* what the last call of APIService.stop has done
    status,         \* HTTPServerManager._status
    server,         \* HTTPServerManager._server is set (configure_server)
    serve_task,     \* HTTPServerManager._serve_task
    should_exit,    \* HTTPServerManager._server.should_exit
    exit_signal,    \* how things were when stop() last set should_exit
    active_requests,\* the keys of HTTPServerManager._active_requests
    in_flight,      \* the requests inside RequestTrackingMiddleware.dispatch
    hs,             \* where each call of HTTPServerManager.stop is, by caller
    phase,          \* ShutdownManager._phase
    is_shutting_down, \* ShutdownManager._is_shutting_down
    shutdown_reason,  \* ShutdownManager._shutdown_reason
    shutdown_complete,\* ShutdownManager._shutdown_complete is set
    force_exit,     \* ShutdownManager._force_exit
    signal_handlers,\* the loop's SIGINT and SIGTERM handlers are installed
    sdPending,      \* tasks created by trigger_shutdown that have not run yet
    sdPc,           \* where the task running _graceful_shutdown is
    sdIter,         \* the iteration of the trigger_event that task awaits
    sdLog,          \* what the shutdown manager has done, in order
    waiter,         \* the call of wait_for_shutdown: where it is, its arguments
    running,        \* the task the event loop is running ("none": between tasks)
    calls,          \* calls made so far, by operation
    app,            \* APIService._app is set
    injector,       \* APIService._injector is set
    views,          \* APIService._views
    routes,         \* times each view class was registered on the application
    viewOps,        \* SpecViews: calls made so far
    phase_timeouts, \* ShutdownManager._phase_timeouts
    timeout_applied,\* SpecConfig: per phase run, the timeout it ran under
    configOps,      \* SpecConfig: calls of configure made so far
    sm_status,      \* ServiceManager._status
    sm_app,         \* ServiceManager._app is set
    startup_hooks,  \* ServiceManager._startup_hooks
    health_status,  \* ServiceManager._health_status["status"]
    hookPc,         \* startup_event: index of the hook it runs next, or 0
    hookLog,        \* hooks run by the latest startup_event, with outcomes
    startup_raised, \* the latest startup_event raised
    startups,       \* startup events delivered so far
    reported,       \* the latest get_health_status: status then, and answer
    cbv_routes,     \* app.router.routes: the routes of the FastAPI app
    cbv_setups,     \* calls of APIView.setup made: class, prefix, instance
    service_items,  \* ItemService.items (its keys)
    service_counter,\* ItemService.counter
    cbv_response,   \* the latest request and its response
    bus_handlers,   \* EventBus._handlers[event_type], or None without the key
    event,          \* the event posted: cancellable, _cancelled
    post_call,      \* the post in progress: mode, handlers, position, loop
    handler_calls,  \* per handler function, the runs of its body in this post
    cancelled_at,   \* position of the handler that cancelled the event, or 0
    post_result     \* what the latest post returned, or None while it runs

lmVars == << lmIter, lmState, lmCalls, lmRegistered, lmModified, lmOps >>
apiVars == << started, stopping, startPc, startIter, startLog, stopPc, stopLog >>
httpVars == << status, server, serve_task, should_exit, exit_signal,
              active_requests, in_flight, hs >>
sdVars == << phase, is_shutting_down, shutdown_reason, shutdown_complete,
             sdPending, sdPc, sdIter, sdLog >>
cfgVars == << serverManager, force_exit >>
svcVars == << cfgVars, apiVars, httpVars, sdVars, signal_handlers, waiter,
              running, calls >>

viewVars == << app, injector, views, routes, viewOps >>
configVars == << phase_timeouts, timeout_applied, configOps >>
healthVars == << sm_status, sm_app, startup_hooks, health_status, hookPc, hookLog, startup_raised, startups, reported >>
cbvVars == << cbv_routes, cbv_setups, service_items, service_counter, cbv_response >>
busVars == << bus_handlers, event, post_call, handler_calls, cancelled_at, post_result >>
auxVars == << viewVars, configVars, healthVars, cbvVars, busVars >>

vars == << listeners, lmVars, svcVars, auxVars >>

\* the view classes given to register_view
ViewClasses == 1 .. MaxViews

\* APIService.__init__ lines 196-203: no application, no injector, no views
ViewsConstructed ==
    /\ app = FALSE /\ injector = FALSE
    /\ views = { }
    /\ routes = [ v \in ViewClasses |-> 0 ]
    /\ viewOps = 0

\* ShutdownManager.__init__ lines 88-93
ConfigConstructed ==
    /\ phase_timeouts = [ api_stopping |-> 30, services_stopping |-> 20,
                          cleanup |-> 10 ]
    /\ timeout_applied = << >>
    /\ configOps = 0

\* ServiceManager.__init__ lines 61-77
HealthConstructed ==
    /\ sm_status = "created"
    /\ sm_app = FALSE
    /\ startup_hooks = << >>
    /\ health_status = "ok"
    /\ hookPc = 0
    /\ hookLog = << >>
    /\ startup_raised = FALSE
    /\ startups = 0
    /\ reported = None

\* tests/test_cbv.py: ItemService.__init__ lines 30-32, create_app line 100
CbvConstructed ==
    /\ cbv_routes = << >>
    /\ cbv_setups = << >>
    /\ service_items = { }
    /\ service_counter = 0
    /\ cbv_response = None

\* core/events.py: EventBus.__init__ lines 84-86; no event posted yet
BusConstructed ==
    /\ bus_handlers = None
    /\ event = [ cancellable |-> FALSE, cancelled |-> FALSE ]
    /\ post_call = [ mode |-> "", handlers |-> << >>, pc |-> 0, in_loop |-> FALSE ]
    /\ handler_calls = [ f \in 1 .. MaxHandlers |-> 0 ]
    /\ cancelled_at = 0
    /\ post_result = None

AuxConstructed == ViewsConstructed /\ ConfigConstructed /\ HealthConstructed /\ CbvConstructed /\ BusConstructed

\* the state of a service that was constructed and not started:
\* APIService.__init__, HTTPServerManager.__init__, ShutdownManager.__init__
ServiceConstructed ==
    /\ started = FALSE /\ stopping = FALSE
    /\ startPc = "idle" /\ startIter = NoIter /\ startLog = << >>
    /\ stopPc = "idle" /\ stopLog = << >>
    /\ status = "created" /\ server = FALSE /\ serve_task = "none"
    /\ should_exit = FALSE
    /\ exit_signal = [ given |-> FALSE, active |-> 0, timed_out |-> FALSE ]
    /\ active_requests = { } /\ in_flight = { }
    /\ hs = [ c \in { "sd", "stop" } |-> "none" ]
    /\ phase = "not_started" /\ is_shutting_down = FALSE
    /\ shutdown_reason = "none" /\ shutdown_complete = FALSE
    /\ signal_handlers = FALSE
    /\ sdPending = << >> /\ sdPc = "none" /\ sdIter = NoIter /\ sdLog = << >>
    /\ waiter = [ pc |-> "idle", timeout |-> FALSE, after_trigger |-> FALSE ]
    /\ running = "none"
    /\ calls = [ start |-> 0, stop |-> 0, trigger |-> 0, wait |-> 0,
                 cancel |-> 0, ignored |-> 0, last |-> "none" ]
    /\ AuxConstructed

(***************************************************************************)
(* SpecLM: the listener registry                                           *)
(***************************************************************************)
\* the events, and the (component_type, priority) arguments, used in SpecLM
LMEvents == { "pre_startup", "pre_cleanup" }
LMArgs ==
    { << Some("api"), None >>, << None, None >>, << None, Some(100) >> }

Callbacks == 1 .. MaxCallbacks

LMInit ==
    /\ listeners = EmptyTable
    /\ lmIter = NoIter
    /\ lmState = "idle"
    /\ lmCalls = << >>
    /\ lmRegistered = << >>
    /\ lmModified = FALSE
    /\ lmOps = 0
    /\ serverManager = "HTTPServerManager" /\ force_exit = FALSE
    /\ ServiceConstructed

\* register_event_listener, called at any time: between triggers, or while a
\* trigger is suspended in (or running) a listener
LMRegister(event_type, callback, args) ==
    /\ lmOps < MaxOps
    /\ lmOps' = lmOps + 1
    /\ listeners' = register_event_listener(listeners, event_type, callback,
                                            args[1], args[2])
    /\ lmIter' = IterAfterRegister(lmIter, listeners', event_type)
    /\ lmModified' = (lmModified \/ (lmState = "running" /\ lmIter.ev = event_type))
    /\ UNCHANGED << lmState, lmCalls, lmRegistered, svcVars, auxVars >>

\* unregister_event_listener, called at any time
LMUnregister(event_type, callback) ==
    /\ lmOps < MaxOps
    /\ lmOps' = lmOps + 1
    /\ listeners' = unregister_event_listener(listeners, event_type, callback)
    /\ lmIter' = IterAfterUnregister(
                     lmIter, unregister_changes(listeners, event_type, callback),
                     event_type)
    /\ lmModified' = (lmModified \/ (/\ lmState = "running"
                                      /\ lmIter.ev = event_type
                                      /\ listeners' # listeners))
    /\ UNCHANGED << lmState, lmCalls, lmRegistered, svcVars, auxVars >>

\* one pass of the for loop of trigger_event over iteration it: the next
\* listener is called (and returns or raises), or the list is exhausted
LMLoop(it, called) ==
    IF IterHasNext(it)
    THEN \E outcome \in Outcomes :
            /\ lmCalls' = Append(called, IterListener(it))
            /\ lmIter' = IterAdvance(it)
            /\ lmState' = IF RaisesOut(it.ev, outcome) THEN "raised" ELSE "running"
    ELSE /\ lmCalls' = called
         /\ lmIter' = it
         /\ lmState' = "returned"

\* trigger_event(event_type) is called: lines 284-294 and the first listener
LMTriggerBegin(event_type) ==
    /\ lmState # "running"
    /\ lmOps < MaxOps
    /\ lmOps' = lmOps + 1
    /\ lmRegistered' = listeners[event_type]
    /\ lmModified' = FALSE
    /\ LMLoop(IterStart(listeners, event_type), << >>)
    /\ UNCHANGED << listeners, svcVars, auxVars >>

\* the listener called last has returned: the loop goes on
LMTriggerStep ==
    /\ lmState = "running"
    /\ LMLoop(lmIter, lmCalls)
    /\ UNCHANGED << listeners, lmRegistered, lmModified, lmOps, svcVars, auxVars >>

LMNext ==
    \/ \E e \in LMEvents, cb \in Callbacks, a \in LMArgs : LMRegister(e, cb, a)
    \/ \E e \in LMEvents, cb \in Callbacks : LMUnregister(e, cb)
    \/ \E e \in LMEvents : LMTriggerBegin(e)
    \/ LMTriggerStep

SpecLM == LMInit /\ [][LMNext]_vars

(***************************************************************************)
(* SpecOrder: listeners registered without a priority, each with its own   *)
(* callback, for startup and shutdown events                               *)
(***************************************************************************)
OrderShutdownEvents == { "pre_shutdown", "post_cleanup" }
OrderEvents == StartupEvents \cup OrderShutdownEvents

\* register_event_listener(event_type, callback, component_type)
OrderRegister(event_type, component_type) ==
    /\ lmOps < MaxOrderOps
    /\ lmOps' = lmOps + 1
    /\ listeners' = register_event_listener(listeners, event_type, lmOps + 1,
                                            Some(component_type), None)
    /\ UNCHANGED << lmIter, lmState, lmCalls, lmRegistered, lmModified, svcVars, auxVars >>

\* register_listener_for_multiple_events([startup, shutdown], callback,
\* component_type)
OrderRegisterBoth(startup, shutdown, component_type) ==
    /\ lmOps < MaxOrderOps
    /\ lmOps' = lmOps + 1
    /\ listeners' = register_listener_for_multiple_events(
                         listeners, << startup, shutdown >>, lmOps + 1,
                         Some(component_type), None)
    /\ UNCHANGED << lmIter, lmState, lmCalls, lmRegistered, lmModified, svcVars, auxVars >>

OrderNext ==
    \/ \E e \in OrderEvents, ct \in ComponentType : OrderRegister(e, ct)
    \/ \E s \in StartupEvents, d \in OrderShutdownEvents, ct \in ComponentType :
           OrderRegisterBoth(s, d, ct)

SpecOrder == LMInit /\ [][OrderNext]_vars

(***************************************************************************)
(* Spec: the service.  Every coroutine is a task of one asyncio event      *)
(* loop: "running" is the task that holds the loop, and a task gives the   *)
(* loop up only at an await that suspends (a listener call, a sleep, a     *)
(* wait).  A step that ends with running' = "none" ends at such an await.  *)
(***************************************************************************)
Entry(k, ev, id) == [ k |-> k, ev |-> ev, id |-> id ]

Alive == sdPc # "exited"
CallsMade == calls.start + calls.stop + calls.trigger + calls.wait + calls.cancel
CanRun(t) == Alive /\ running \in { "none", t }
Suspended == Alive /\ running = "none"

\* the listeners registered before the service starts, as calls of
\* register_event_listener(event_type, callback, component_type, priority);
\* the PRE_SHUTDOWN ones are those of examples/service_lifecycle_demo.py
StartupRegistrations ==
    << << "pre_startup", 1, Some("core"), Some(100) >>,
       << "pre_startup", 2, Some("db"), None >>,
       << "post_http_start", 3, Some("api"), None >> >>

ShutdownRegistrations ==
    << << "pre_services_stop", 4, None, None >>,
       << "post_services_stop", 5, None, None >>,
       << "pre_cleanup", 6, None, None >>,
       << "pre_shutdown", 7, Some("db"), Some(10) >>,
       << "pre_shutdown", 8, Some("api"), Some(90) >> >>

Scenarios == { StartupRegistrations, ShutdownRegistrations }

RECURSIVE RegisterAll(_, _)
RegisterAll(table, regs) ==
    IF regs = << >> THEN table
    ELSE RegisterAll(
             register_event_listener(table, Head(regs)[1], Head(regs)[2],
                                     Head(regs)[3], Head(regs)[4]),
             Tail(regs))

Init ==
    /\ \E sc \in Scenarios : listeners = RegisterAll(EmptyTable, sc)
    /\ lmIter = NoIter /\ lmState = "idle" /\ lmCalls = << >>
    /\ lmRegistered = << >> /\ lmModified = FALSE /\ lmOps = 0
    /\ serverManager \in { "HTTPServerManager", "ExtendedHTTPServerManager" }
    /\ force_exit \in BOOLEAN
    /\ ServiceConstructed

(***************************************************************************)
(* HTTPServerManager.stop, called by _stop_api_server (caller "sd") and by *)
(* APIService.stop (caller "stop").  hs[c] is where the call of caller c   *)
(* is suspended; "returned" and "cancelled" are how it ended.              *)
(***************************************************************************)
\* settings.GRACEFUL_SHUTDOWN, by default
GRACEFUL_SHUTDOWN == TRUE

\* the ids of the requests: dispatch line 64 makes one of the time and of
\* id(request), which differs between requests that exist at the same time
RequestIds == 1 .. MaxRequests

\* lines 143-146
active_request_count == Cardinality(active_requests)

\* lines 153-161
add_request(active, request_id) == active \cup { request_id }

\* lines 163-171
remove_request(active, request_id) == active \ { request_id }

\* stop that never waits for the requests (mutant)
WaitsForRequestsNever(graceful, count) == FALSE
\* stop lines 289-291: if self._graceful_shutdown and count > 0
WaitsForRequests(graceful, count) == graceful /\ count > 0

ServeTaskDone == serve_task \in { "finished", "cancelled" }

\* lines 293-345: the server task is told to exit and awaited
HttpStopServe(c, timed_out) ==
    IF serve_task # "none" /\ ~ServeTaskDone
    THEN /\ should_exit' = TRUE
         /\ exit_signal' = [ given |-> TRUE, active |-> active_request_count,
                             timed_out |-> timed_out ]
         /\ status' = "stopping"
         /\ \E sleeps \in BOOLEAN :
               hs' = [ hs EXCEPT ![c] = IF sleeps THEN "lifespan_sleep"
                                        ELSE "wait_serve" ]
         /\ UNCHANGED serve_task
    ELSE /\ status' = "stopped"
         /\ hs' = [ hs EXCEPT ![c] = "returned" ]
         /\ UNCHANGED << should_exit, exit_signal, serve_task >>

\* lines 280-291
HttpStopBegin(c) ==
    IF status = "stopped"
    THEN /\ hs' = [ hs EXCEPT ![c] = "returned" ]
         /\ UNCHANGED << status, should_exit, exit_signal, serve_task >>
    ELSE IF WaitsForRequests(GRACEFUL_SHUTDOWN, active_request_count)
    THEN /\ status' = "stopping"
         /\ hs' = [ hs EXCEPT ![c] = "wait_requests" ]
         /\ UNCHANGED << should_exit, exit_signal, serve_task >>
    ELSE HttpStopServe(c, FALSE)

\* the task that goes on when the call of caller c ends
RunningAfterHttpStop(c) ==
    running' = IF hs'[c] \in { "returned", "cancelled" } THEN c ELSE "none"

InHttpStop(c) ==
    IF c = "sd" THEN sdPc = "http_stop" ELSE stopPc = "http_stop"

HsFrame ==
    UNCHANGED << listeners, lmVars, auxVars, cfgVars, apiVars, sdVars, signal_handlers,
                 waiter, calls, server, active_requests, in_flight >>

\* _wait_for_active_requests: the requests are done, or the wait timed out
HsWaitRequests(c) ==
    /\ Suspended /\ InHttpStop(c) /\ hs[c] = "wait_requests"
    /\ HttpStopServe(c, active_request_count > 0)
    /\ RunningAfterHttpStop(c)
    /\ HsFrame

\* line 319: asyncio.sleep(0.5) is over
HsLifespanSleep(c) ==
    /\ Suspended /\ InHttpStop(c) /\ hs[c] = "lifespan_sleep"
    /\ hs' = [ hs EXCEPT ![c] = "wait_serve" ]
    /\ UNCHANGED << status, should_exit, exit_signal, serve_task, running >>
    /\ HsFrame

\* lines 326-333: wait_for(shield(serve_task), 5.0) ends: the task is done
\* (finished, or cancelled by the other call: CancelledError), or 5 s passed
HsWaitServe(c) ==
    /\ Suspended /\ InHttpStop(c) /\ hs[c] = "wait_serve"
    /\ IF serve_task = "finished"
       THEN /\ status' = "stopped"
            /\ hs' = [ hs EXCEPT ![c] = "returned" ]
            /\ UNCHANGED serve_task
       ELSE IF serve_task = "cancelled"
       THEN /\ hs' = [ hs EXCEPT ![c] = "cancelled" ]
            /\ UNCHANGED << status, serve_task >>
       ELSE /\ serve_task' = "cancelling"
            /\ hs' = [ hs EXCEPT ![c] = "await_cancelled" ]
            /\ UNCHANGED status
    /\ UNCHANGED << should_exit, exit_signal >>
    /\ RunningAfterHttpStop(c)
    /\ HsFrame

\* lines 334-345: the cancelled server task is done
HsAwaitCancelled(c) ==
    /\ Suspended /\ InHttpStop(c) /\ hs[c] = "await_cancelled"
    /\ ServeTaskDone
    /\ status' = "stopped"
    /\ hs' = [ hs EXCEPT ![c] = "returned" ]
    /\ UNCHANGED << should_exit, exit_signal, serve_task >>
    /\ RunningAfterHttpStop(c)
    /\ HsFrame

\* the call of caller c is cancelled where it is suspended: the
\* CancelledError leaves stop(), except at line 335, where it is caught
HttpStopAbort(c) ==
    /\ status' = IF hs[c] = "await_cancelled" THEN "stopped" ELSE status
    /\ hs' = [ hs EXCEPT ![c] = "none" ]

HsSuspendedAt == { "wait_requests", "lifespan_sleep", "wait_serve", "await_cancelled" }

(***************************************************************************)
(* The server task (uvicorn's Server.serve) and the requests it serves     *)
(***************************************************************************)
EnvFrame ==
    UNCHANGED << listeners, lmVars, auxVars, cfgVars, apiVars, sdVars, signal_handlers,
                 waiter, calls, running >>

\* serve() returns (should_exit was seen) or fails
ServeExit ==
    /\ Suspended /\ serve_task = "running"
    /\ serve_task' = "finished"
    /\ UNCHANGED << status, server, should_exit, exit_signal, active_requests, in_flight, hs >>
    /\ EnvFrame

\* serve() ends by the CancelledError of serve_task.cancel()
ServeCancelled ==
    /\ Suspended /\ serve_task = "cancelling"
    /\ serve_task' = "cancelled"
    /\ UNCHANGED << status, server, should_exit, exit_signal, active_requests, in_flight, hs >>
    /\ EnvFrame

\* RequestTrackingMiddleware.dispatch lines 63-67: a request enters
RequestEnter(request_id) ==
    /\ Suspended /\ serve_task = "running"
    /\ request_id \notin in_flight
    /\ in_flight' = in_flight \cup { request_id }
    /\ active_requests' = add_request(active_requests, request_id)
    /\ UNCHANGED << status, server, should_exit, exit_signal, serve_task, hs >>
    /\ EnvFrame

\* RequestTrackingMiddleware.dispatch lines 69-75: call_next returned or
\* raised; finally: remove_request
RequestFinish(request_id) ==
    /\ Suspended
    /\ request_id \in in_flight
    /\ in_flight' = in_flight \ { request_id }
    /\ active_requests' = remove_request(active_requests, request_id)
    /\ UNCHANGED << status, server, should_exit, exit_signal, serve_task, hs >>
    /\ EnvFrame

(***************************************************************************)
(* APIService.start(block=False)                                           *)
(***************************************************************************)
\* HTTPServerManager.configure_server(self, app, host, port, ...) is called
\* by start without app: a TypeError.  ExtendedHTTPServerManager of
\* examples/quickstart.py, bound in place of it, takes app as optional.
ConfigureServerRaises(manager) == manager = "HTTPServerManager"

\* the startup events in another order (mutant)
EventAfterSwapped(event_type) ==
    CASE event_type = "pre_startup" -> "post_http_start"
      [] event_type = "post_http_start" -> "pre_http_start"
      [] event_type = "pre_http_start" -> "post_startup"
\* start lines 314, 329, 332: the event triggered after event_type
EventAfter(event_type) ==
    CASE event_type = "pre_startup" -> "pre_http_start"
      [] event_type = "pre_http_start" -> "post_http_start"
      [] event_type = "post_http_start" -> "post_startup"

\* the except clause of start, which does not reset the flag (mutant)
StartedAfterExceptionKept(flag) == flag
\* lines 346-350: _started after an exception left the try block
StartedAfterException(flag) == FALSE

StartFrame ==
    UNCHANGED << listeners, lmVars, auxVars, cfgVars, stopPc, stopLog, sdVars, waiter,
                 active_requests, in_flight, hs >>

\* start is called: lines 273-291
StartCall ==
    /\ Suspended
    /\ started \/ startPc \in { "idle", "returned", "raised" }
    /\ CallsMade < MaxCalls
    /\ calls' = [ calls EXCEPT !.start = @ + 1,
                               !.last = IF started THEN "start_started"
                                        ELSE "start" ]
    /\ IF started
       THEN UNCHANGED << startPc, startIter, startLog, running >>
       ELSE /\ startPc' = "pre_startup"
            /\ startIter' = IterStart(listeners, "pre_startup")
            /\ startLog' = << Entry("trigger", "pre_startup", 0) >>
            /\ running' = "start"
    /\ UNCHANGED << started, stopping, status, server, serve_task, should_exit, exit_signal,
                    signal_handlers >>
    /\ StartFrame

\* the next trigger_event of start
StartTrigger(event_type, log) ==
    /\ startPc' = event_type
    /\ startIter' = IterStart(listeners, event_type)
    /\ startLog' = Append(log, Entry("trigger", event_type, 0))
    /\ running' = "start"

\* lines 346-350: except Exception
StartExcept(log) ==
    /\ started' = StartedAfterException(started)
    /\ stopping' = FALSE
    /\ startPc' = "raised"
    /\ startIter' = NoIter
    /\ startLog' = Append(log, Entry("raise", startPc, 0))
    /\ running' = "none"

\* the code of start after the trigger_event at startPc returned
StartAfter ==
    IF startPc = "pre_startup"
    THEN \* lines 295-312: configure_server, register_signal_handlers
         IF ConfigureServerRaises(serverManager)
         THEN /\ StartExcept(startLog)
              /\ UNCHANGED << status, server, serve_task, should_exit, exit_signal,
                              signal_handlers >>
         ELSE /\ server' = TRUE
              /\ should_exit' = FALSE
              /\ UNCHANGED exit_signal
              /\ signal_handlers' = TRUE
              /\ StartTrigger(EventAfter(startPc), startLog)
              /\ UNCHANGED << started, stopping, status, serve_task >>
    ELSE IF startPc = "pre_http_start"
    THEN \* lines 317-326: the flags, HTTPServerManager.start
         /\ started' = TRUE
         /\ stopping' = FALSE
         /\ status' = "running"
         /\ serve_task' = "running"
         /\ StartTrigger(EventAfter(startPc),
                         Append(startLog, Entry("http_start", "", 0)))
         /\ UNCHANGED << server, should_exit, exit_signal, signal_handlers >>
    ELSE IF startPc = "post_http_start"
    THEN /\ StartTrigger(EventAfter(startPc), startLog)
         /\ UNCHANGED << started, stopping, status, server, serve_task,
                         should_exit, exit_signal, signal_handlers >>
    ELSE \* post_startup; block is False: start returns
         /\ startPc' = "returned"
         /\ startIter' = NoIter
         /\ running' = "none"
         /\ UNCHANGED << started, stopping, startLog, status, server,
                         serve_task, should_exit, exit_signal, signal_handlers >>

\* trigger_event of start calls the next listener of the event and awaits it
StartInvoke ==
    /\ Alive /\ running = "start"
    /\ startPc \in StartupEvents
    /\ IterHasNext(startIter)
    /\ startLog' = Append(startLog,
                          Entry("call", startPc, IterListener(startIter).id))
    /\ running' = "none"
    /\ UNCHANGED << started, stopping, startPc, startIter, status, server,
                    serve_task, should_exit, exit_signal, signal_handlers, calls >>
    /\ StartFrame

\* the listener awaited by start returns or raises
StartListenerDone ==
    /\ Suspended
    /\ startPc \in StartupEvents
    /\ \E outcome \in Outcomes :
          IF RaisesOut(startPc, outcome)
          THEN StartExcept(startLog)
          ELSE /\ startIter' = IterAdvance(startIter)
               /\ running' = "start"
               /\ UNCHANGED << started, stopping, startPc, startLog >>
    /\ UNCHANGED << status, server, serve_task, should_exit, exit_signal, signal_handlers,
                    calls >>
    /\ StartFrame

\* the event's listeners are through: start goes on
StartContinue ==
    /\ Alive /\ running = "start"
    /\ startPc \in StartupEvents
    /\ ~IterHasNext(startIter)
    /\ StartAfter
    /\ UNCHANGED calls
    /\ StartFrame

(***************************************************************************)
(* ShutdownManager: trigger_shutdown and the task of _graceful_shutdown    *)
(***************************************************************************)
\* _graceful_shutdown lines 259-262 left out (mutant)
AlreadyShuttingDownIgnored(flag) == FALSE
\* _graceful_shutdown lines 259-262: the flag is checked when the task runs
AlreadyShuttingDown(flag) == flag

\* the phases in a different order (mutant)
PhaseSequenceSwapped == << "services_stopping", "api_stopping", "cleanup" >>
\* _graceful_shutdown lines 278-284: the phases given to _execute_phase
PhaseSequence == << "api_stopping", "services_stopping", "cleanup" >>

\* _execute_phase: the first event of the phase's procedure
FirstEventOf(p) ==
    CASE p = "api_stopping" -> "pre_http_stop"
      [] p = "services_stopping" -> "pre_services_stop"
      [] p = "cleanup" -> "pre_cleanup"

SdEvents == { "pre_http_stop", "pre_services_stop", "post_services_stop",
              "pre_cleanup", "post_cleanup" }
SdSleeps == { "sleep_api", "sleep_services", "sleep_cleanup" }

\* trigger_shutdown lines 221-231: a task is created unless the flag is set
trigger_shutdown(pending, reason) ==
    IF is_shutting_down THEN pending ELSE Append(pending, reason)

SdTrigger(event_type, log) ==
    /\ sdPc' = event_type
    /\ sdIter' = IterStart(listeners, event_type)
    /\ sdLog' = Append(log, Entry("trigger", event_type, 0))
    /\ running' = "sd"

\* _execute_phase lines 343-349
SdEnterPhase(p, log) ==
    /\ phase' = p
    /\ SdTrigger(FirstEventOf(p), Append(log, Entry("phase", p, 0)))

PhaseIndex(p) == CHOOSE i \in 1..Len(PhaseSequence) : PhaseSequence[i] = p

\* _execute_phase returned: the next phase, or lines 286-297
SdAfterPhase(log) ==
    IF PhaseIndex(phase) < Len(PhaseSequence)
    THEN SdEnterPhase(PhaseSequence[PhaseIndex(phase) + 1], log)
    ELSE /\ phase' = "completed"
         /\ sdPc' = IF force_exit THEN "exited" ELSE "completed"
         /\ sdIter' = NoIter
         /\ sdLog' = Append(log, Entry("phase", "completed", 0))
         /\ running' = "none"

SdFrame ==
    UNCHANGED << listeners, lmVars, auxVars, cfgVars, apiVars, signal_handlers, waiter,
                 server, active_requests, in_flight >>

\* trigger_shutdown called by a signal handler or by the application
TriggerShutdown(reason) ==
    /\ Suspended
    /\ reason = "signal" => signal_handlers
    /\ CallsMade < MaxCalls
    /\ calls' = [ calls EXCEPT !.trigger = @ + 1 ]
    /\ sdPending' = trigger_shutdown(sdPending, reason)
    /\ UNCHANGED << phase, is_shutting_down, shutdown_reason, shutdown_complete,
                    sdPc, sdIter, sdLog, status, serve_task, should_exit, exit_signal, hs,
                    running >>
    /\ SdFrame

\* a task created by trigger_shutdown runs: _graceful_shutdown lines 259-278
SdRun ==
    /\ Suspended
    /\ sdPending # << >>
    /\ sdPending' = Tail(sdPending)
    /\ IF AlreadyShuttingDown(is_shutting_down)
       THEN /\ calls' = [ calls EXCEPT !.ignored = @ + 1 ]
            /\ UNCHANGED << phase, is_shutting_down, shutdown_reason, sdPc,
                            sdIter, sdLog, running >>
       ELSE /\ is_shutting_down' = TRUE
            /\ shutdown_reason' = Head(sdPending)
            /\ SdEnterPhase(PhaseSequence[1],
                            Append(sdLog, Entry("phase", "starting", 0)))
            /\ UNCHANGED calls
    /\ UNCHANGED << shutdown_complete, status, serve_task, should_exit, exit_signal, hs >>
    /\ SdFrame

\* trigger_event of the shutdown task calls the next listener and awaits it
SdInvoke ==
    /\ Alive /\ running = "sd"
    /\ sdPc \in SdEvents
    /\ IterHasNext(sdIter)
    /\ sdLog' = Append(sdLog, Entry("call", sdPc, IterListener(sdIter).id))
    /\ running' = "none"
    /\ UNCHANGED << phase, is_shutting_down, shutdown_reason, shutdown_complete,
                    sdPending, sdPc, sdIter, status, serve_task, should_exit, exit_signal,
                    hs, calls >>
    /\ SdFrame

\* _graceful_shutdown lines 303-317: except Exception
SdFail(log) ==
    /\ phase' = "failed"
    /\ sdPc' = IF force_exit THEN "exited" ELSE "failed"
    /\ sdIter' = NoIter
    /\ sdLog' = Append(log, Entry("phase", "failed", 0))
    /\ running' = "none"

\* the listener awaited by the shutdown task returns or raises
SdListenerDone ==
    /\ Suspended
    /\ sdPc \in SdEvents
    /\ \E outcome \in Outcomes :
          IF RaisesOut(sdPc, outcome)
          THEN SdFail(sdLog)
          ELSE /\ sdIter' = IterAdvance(sdIter)
               /\ running' = "sd"
               /\ UNCHANGED << phase, sdPc, sdLog >>
    /\ UNCHANGED << is_shutting_down, shutdown_reason, shutdown_complete,
                    sdPending, status, serve_task, should_exit, exit_signal, hs, calls >>
    /\ SdFrame

\* the event's listeners are through: the phase's procedure goes on
SdContinue ==
    /\ Alive /\ running = "sd"
    /\ sdPc \in SdEvents
    /\ ~IterHasNext(sdIter)
    /\ IF sdPc = "pre_http_stop"
       THEN \* _stop_api_server line 381: wait_for(http_server_manager.stop())
            /\ sdPc' = "http_stop"
            /\ sdLog' = Append(sdLog, Entry("http_stop", "", 0))
            /\ HttpStopBegin("sd")
            /\ RunningAfterHttpStop("sd")
            /\ UNCHANGED << phase, sdIter, shutdown_complete >>
       ELSE IF sdPc \in { "pre_services_stop", "pre_cleanup" }
       THEN \* _stop_services line 473, _cleanup_resources line 501
            /\ sdPc' = IF sdPc = "pre_services_stop" THEN "sleep_services"
                       ELSE "sleep_cleanup"
            /\ running' = "none"
            /\ UNCHANGED << phase, sdIter, sdLog, shutdown_complete, status,
                            serve_task, should_exit, exit_signal, hs >>
       ELSE \* the phase's procedure returns; _cleanup_resources line 512
            /\ shutdown_complete' = (shutdown_complete \/ sdPc = "post_cleanup")
            /\ SdAfterPhase(sdLog)
            /\ UNCHANGED << status, serve_task, should_exit, exit_signal, hs >>
    /\ UNCHANGED << is_shutting_down, shutdown_reason, sdPending, calls >>
    /\ SdFrame

\* _stop_api_server lines 382-395: the call of stop() returned or raised
SdHttpStopDone ==
    /\ CanRun("sd")
    /\ sdPc = "http_stop"
    /\ hs["sd"] \in { "returned", "cancelled" }
    /\ hs' = [ hs EXCEPT !["sd"] = "none" ]
    /\ should_exit' = (should_exit \/ (hs["sd"] = "cancelled" /\ server))
    /\ UNCHANGED exit_signal
    /\ sdPc' = "sleep_api"
    /\ sdLog' = Append(sdLog, Entry("http_stop_done", hs["sd"], 0))
    /\ running' = "none"
    /\ UNCHANGED << phase, is_shutting_down, shutdown_reason, shutdown_complete,
                    sdPending, sdIter, status, serve_task, calls >>
    /\ SdFrame

\* _stop_api_server lines 383-393: the except clauses of the try around
\* wait_for(stop()) catch the TimeoutError
StopApiServerCatchesNothing(outcome) == FALSE

StopApiServerCatches(outcome) == outcome \in { "timeout", "cancelled", "raise" }

\* _stop_api_server lines 381-384: wait_for gives up after timeout seconds
SdHttpStopTimeout ==
    /\ Suspended
    /\ sdPc = "http_stop"
    /\ hs["sd"] \in HsSuspendedAt
    /\ HttpStopAbort("sd")
    /\ LET log == Append(sdLog, Entry("http_stop_done", "timeout", 0))
       IN  IF StopApiServerCatches("timeout")
           THEN /\ sdPc' = "sleep_api"
                /\ sdLog' = log
                /\ UNCHANGED << phase, sdIter, running >>
           ELSE SdFail(log)
    /\ UNCHANGED << is_shutting_down, shutdown_reason, shutdown_complete,
                    sdPending, serve_task, should_exit, exit_signal, calls >>
    /\ SdFrame

\* an asyncio.sleep(0.5) of the shutdown task is over
SdWake ==
    /\ Suspended
    /\ sdPc \in SdSleeps
    /\ IF sdPc = "sleep_api" THEN SdAfterPhase(sdLog)
       ELSE IF sdPc = "sleep_services"
       THEN SdTrigger("post_services_stop", sdLog) /\ UNCHANGED phase
       ELSE SdTrigger("post_cleanup", sdLog) /\ UNCHANGED phase
    /\ UNCHANGED << is_shutting_down, shutdown_reason, shutdown_complete,
                    sdPending, status, serve_task, should_exit, exit_signal, hs, calls >>
    /\ SdFrame

\* the shutdown task is cancelled where it is suspended: lines 299-302, or
\* within wait_for(stop()) _stop_api_server lines 385-390
SdCancel ==
    /\ Suspended
    /\ sdPc \in SdEvents \cup SdSleeps \cup { "http_stop" }
    /\ CallsMade < MaxCalls
    /\ calls' = [ calls EXCEPT !.cancel = @ + 1 ]
    /\ IF sdPc = "http_stop"
       THEN /\ HttpStopAbort("sd")
            /\ should_exit' = (should_exit \/ server)
            /\ UNCHANGED exit_signal
            /\ sdPc' = "sleep_api"
            /\ sdLog' = Append(sdLog, Entry("http_stop_done", "cancelled", 0))
            /\ UNCHANGED << phase, sdIter >>
       ELSE /\ phase' = "cancelled"
            /\ sdPc' = "cancelled"
            /\ sdIter' = NoIter
            /\ sdLog' = Append(sdLog, Entry("phase", "cancelled", 0))
            /\ UNCHANGED << status, should_exit, exit_signal, hs >>
    /\ UNCHANGED << is_shutting_down, shutdown_reason, shutdown_complete,
                    sdPending, serve_task, running >>
    /\ SdFrame

(***************************************************************************)
(* ShutdownManager.wait_for_shutdown, called by the application            *)
(***************************************************************************)
WaitFrame ==
    UNCHANGED << listeners, lmVars, auxVars, cfgVars, apiVars, httpVars, sdVars,
                 signal_handlers, running >>

\* lines 243-247: the call, with a timeout or without
WaitCall(timeout) ==
    /\ Suspended
    /\ waiter.pc \in { "idle", "true", "false" }
    /\ CallsMade < MaxCalls
    /\ calls' = [ calls EXCEPT !.wait = @ + 1 ]
    /\ waiter' = [ pc |-> IF ~is_shutting_down \/ shutdown_complete
                          THEN "true" ELSE "waiting",
                   timeout |-> timeout,
                   after_trigger |-> calls.trigger > 0 ]
    /\ WaitFrame

\* line 248: _shutdown_complete was set
WaitWake ==
    /\ Suspended
    /\ waiter.pc = "waiting"
    /\ shutdown_complete
    /\ waiter' = [ waiter EXCEPT !.pc = "true" ]
    /\ UNCHANGED calls
    /\ WaitFrame

\* lines 249-250: asyncio.TimeoutError
WaitTimeout ==
    /\ Suspended
    /\ waiter.pc = "waiting" /\ waiter.timeout
    /\ ~shutdown_complete
    /\ waiter' = [ waiter EXCEPT !.pc = "false" ]
    /\ UNCHANGED calls
    /\ WaitFrame

(***************************************************************************)
(* APIService.stop                                                         *)
(***************************************************************************)
\* stop without the check of _stopping (mutant)
StopReturnsAtOnceIfNotStarted(is_started, is_stopping) == ~is_started
\* line 373: if not self._started or self._stopping: return
StopReturnsAtOnce(is_started, is_stopping) == ~is_started \/ is_stopping

\* lines 389-392: "await shutdown_manager.trigger_shutdown(...)" awaits the
\* None that trigger_shutdown returns: a TypeError, after the call was made
AwaitTriggerShutdownRaises == TRUE

StopFrame ==
    UNCHANGED << listeners, lmVars, auxVars, cfgVars, startPc, startIter, startLog,
                 signal_handlers, waiter, server, active_requests, in_flight, phase,
                 is_shutting_down, shutdown_reason, shutdown_complete, sdPc,
                 sdIter, sdLog >>

\* lines 414-418: finally
StopFinally(pc, log) ==
    /\ started' = FALSE
    /\ stopping' = FALSE
    /\ stopPc' = pc
    /\ stopLog' = log
    /\ running' = "none"

\* stop is called: lines 373-405
StopCall ==
    /\ Suspended
    /\ CallsMade < MaxCalls
    /\ calls' = [ calls EXCEPT !.stop = @ + 1,
                               !.last = IF ~started THEN "stop_not_started"
                                        ELSE IF stopping THEN "stop_stopping"
                                        ELSE "stop" ]
    /\ IF StopReturnsAtOnce(started, stopping)
       THEN UNCHANGED << started, stopping, stopPc, stopLog, sdPending, status,
                         serve_task, should_exit, exit_signal, hs, running >>
       ELSE IF ~is_shutting_down /\ AwaitTriggerShutdownRaises
       THEN \* trigger_shutdown, the TypeError, and the stop() of lines 402-403
            /\ stopping' = TRUE
            /\ sdPending' = trigger_shutdown(sdPending, "api_call")
            /\ stopPc' = "http_stop"
            /\ stopLog' = << Entry("trigger_shutdown", "api_call", 0),
                             Entry("raise", "TypeError", 0),
                             Entry("http_stop", "", 0) >>
            /\ HttpStopBegin("stop")
            /\ RunningAfterHttpStop("stop")
            /\ UNCHANGED started
       ELSE \* line 396: wait_for_shutdown()
            /\ IF shutdown_complete
               THEN StopFinally("returned",
                                << Entry("wait_for_shutdown", "", 0) >>)
               ELSE /\ stopping' = TRUE
                    /\ stopPc' = "wait_complete"
                    /\ stopLog' = << Entry("wait_for_shutdown", "", 0) >>
                    /\ running' = "none"
                    /\ UNCHANGED started
            /\ UNCHANGED << sdPending, status, serve_task, should_exit, exit_signal, hs >>
    /\ StopFrame

\* the stop() of lines 402-403 returned, or raised CancelledError
StopHttpStopDone ==
    /\ CanRun("stop")
    /\ stopPc = "http_stop"
    /\ hs["stop"] \in { "returned", "cancelled" }
    /\ hs' = [ hs EXCEPT !["stop"] = "none" ]
    /\ StopFinally(IF hs["stop"] = "cancelled" THEN "raised" ELSE "returned",
                   Append(stopLog, Entry("http_stop_done", hs["stop"], 0)))
    /\ UNCHANGED << sdPending, status, serve_task, should_exit, exit_signal, calls >>
    /\ StopFrame

\* wait_for_shutdown line 248 within stop: _shutdown_complete was set
StopWake ==
    /\ Suspended
    /\ stopPc = "wait_complete"
    /\ shutdown_complete
    /\ StopFinally("returned", stopLog)
    /\ UNCHANGED << sdPending, status, serve_task, should_exit, exit_signal, hs, calls >>
    /\ StopFrame

Next ==
    \/ StartCall \/ StartInvoke \/ StartListenerDone \/ StartContinue
    \/ StopCall \/ StopHttpStopDone \/ StopWake
    \/ \E reason \in { "signal", "manual" } : TriggerShutdown(reason)
    \/ SdRun \/ SdInvoke \/ SdListenerDone \/ SdContinue
    \/ SdHttpStopDone \/ SdHttpStopTimeout \/ SdWake \/ SdCancel
    \/ \E c \in { "sd", "stop" } :
          \/ HsWaitRequests(c) \/ HsLifespanSleep(c)
          \/ HsWaitServe(c) \/ HsAwaitCancelled(c)
    \/ ServeExit \/ ServeCancelled
    \/ \E id \in RequestIds : RequestEnter(id) \/ RequestFinish(id)
    \/ \E timeout \in BOOLEAN : WaitCall(timeout)
    \/ WaitWake \/ WaitTimeout

Spec == Init /\ [][Next]_vars

(***************************************************************************)
(* SpecViews: APIService.register_view and the views that start registers. *)
(* Of start only lines 269-286 touch the views; the rest of it, which      *)
(* Spec follows step by step, ends with _started set or with an exception. *)
(***************************************************************************)
\* start lines 282-286: every view class of _views is registered on the app
RegisteredByStart(count, is_listed) == IF is_listed THEN count + 1 ELSE count

ViewsFrame ==
    UNCHANGED << listeners, lmVars, configVars, healthVars, cbvVars, busVars, cfgVars, stopping, startPc,
                 startIter, startLog, stopPc, stopLog, httpVars, sdVars,
                 signal_handlers, waiter, running, calls >>

\* the application creates the injector and the app itself before it
\* registers views: examples/service_lifecycle_demo.py lines 458-459
ViewsCreateApp ==
    /\ viewOps < MaxViewOps
    /\ ~app
    /\ viewOps' = viewOps + 1
    /\ injector' = TRUE
    /\ app' = TRUE
    /\ UNCHANGED << views, routes, started >>
    /\ ViewsFrame

\* register_view(view_cls): lines 591-603
ViewsRegisterView(view_cls) ==
    /\ viewOps < MaxViewOps
    /\ viewOps' = viewOps + 1
    /\ IF view_cls \in views
       THEN UNCHANGED << views, routes >>
       ELSE /\ views' = views \cup { view_cls }
            /\ routes' = IF app /\ injector
                         THEN [ routes EXCEPT ![view_cls] = @ + 1 ]
                         ELSE routes
    /\ UNCHANGED << app, injector, started >>
    /\ ViewsFrame

\* start: lines 269-286, then the rest of start returns or raises
ViewsStart ==
    /\ viewOps < MaxViewOps
    /\ viewOps' = viewOps + 1
    /\ IF started
       THEN UNCHANGED << app, injector, routes, started >>
       ELSE /\ injector' = TRUE
            /\ app' = TRUE
            /\ routes' = [ v \in ViewClasses |->
                             RegisteredByStart(routes[v], v \in views) ]
            /\ \E outcome \in Outcomes :
                  started' = (outcome = "ok")
    /\ UNCHANGED views
    /\ ViewsFrame

\* stop on a started service: lines 414-418 reset _started
ViewsStop ==
    /\ viewOps < MaxViewOps
    /\ started
    /\ viewOps' = viewOps + 1
    /\ started' = FALSE
    /\ UNCHANGED << app, injector, views, routes >>
    /\ ViewsFrame

ViewsInit ==
    /\ listeners = EmptyTable
    /\ lmIter = NoIter /\ lmState = "idle" /\ lmCalls = << >>
    /\ lmRegistered = << >> /\ lmModified = FALSE /\ lmOps = 0
    /\ serverManager = "ExtendedHTTPServerManager" /\ force_exit = FALSE
    /\ ServiceConstructed

ViewsNext ==
    \/ ViewsCreateApp
    \/ \E v \in ViewClasses : ViewsRegisterView(v)
    \/ ViewsStart
    \/ ViewsStop

SpecViews == ViewsInit /\ [][ViewsNext]_vars

(***************************************************************************)
(* SpecConfig: ShutdownManager.configure(phase_timeouts=...) and the       *)
(* timeout under which _execute_phase runs each phase of a shutdown.  What *)
(* the phases do is in Spec.                                               *)
(***************************************************************************)
\* the timeouts given to configure
TimeoutValues == { 5, 15 }

\* the phase_timeouts arguments: a dict of some of the phases
PhaseTimeoutArgs ==
    UNION { [ ps -> TimeoutValues ] : ps \in SUBSET { "api_stopping", "cleanup" } }

\* configure lines 177-178: if phase_timeouts: self._phase_timeouts.update(..)
configure(timeouts, arg) ==
    [ p \in DOMAIN timeouts |-> IF p \in DOMAIN arg THEN arg[p] ELSE timeouts[p] ]

\* _execute_phase lines 348-356: the timeout passed to the phase's procedure
PhaseTimeoutPassed(p) ==
    CASE p = "api_stopping" -> 10
      [] p = "services_stopping" -> 10
      [] p = "cleanup" -> 5

ConfigFrame ==
    UNCHANGED << listeners, lmVars, viewVars, healthVars, cbvVars, busVars, svcVars >>

ConfigConfigure(arg) ==
    /\ configOps < MaxConfigures
    /\ configOps' = configOps + 1
    /\ phase_timeouts' = configure(phase_timeouts, arg)
    /\ UNCHANGED timeout_applied
    /\ ConfigFrame

\* the shutdown task runs its next phase: _graceful_shutdown lines 278-284
ConfigExecutePhase ==
    /\ Len(timeout_applied) < Len(PhaseSequence)
    /\ LET p == PhaseSequence[Len(timeout_applied) + 1]
       IN  timeout_applied' = Append(timeout_applied,
               [ phase |-> p, configured |-> phase_timeouts[p],
                 passed |-> PhaseTimeoutPassed(p) ])
    /\ UNCHANGED << phase_timeouts, configOps >>
    /\ ConfigFrame

ConfigNext ==
    \/ \E arg \in PhaseTimeoutArgs : ConfigConfigure(arg)
    \/ ConfigExecutePhase

SpecConfig == ViewsInit /\ [][ConfigNext]_vars

(***************************************************************************)
(* SpecHealth: ServiceManager's status, its startup hooks and              *)
(* get_health_status.                                                      *)
(***************************************************************************)
Hooks == 1 .. MaxHooks

\* get_health_status line 181
HealthOfAlwaysOk(st) == "ok"

HealthOf(st) == IF st = "running" THEN "ok" ELSE "error"

\* startup_event lines 216-218: what the except clause does to the status
StatusAfterHookErrorKept(st) == st

StatusAfterHookError(st) == "error"

HealthFrame ==
    UNCHANGED << listeners, lmVars, viewVars, configVars, cbvVars, busVars, svcVars >>

\* setup lines 117-125
HealthSetup ==
    /\ ~sm_app
    /\ sm_app' = TRUE
    /\ UNCHANGED << sm_status, startup_hooks, health_status, hookPc, hookLog,
                    startup_raised, startups, reported >>
    /\ HealthFrame

\* add_startup_hook lines 127-134
HealthAddStartupHook(hook) ==
    /\ Len(startup_hooks) < MaxHooks
    /\ startup_hooks' = Append(startup_hooks, hook)
    /\ UNCHANGED << sm_status, sm_app, health_status, hookPc, hookLog,
                    startup_raised, startups, reported >>
    /\ HealthFrame

\* discover_components line 162
HealthDiscover ==
    /\ sm_status = "created"
    /\ sm_status' = "starting"
    /\ UNCHANGED << sm_app, startup_hooks, health_status, hookPc, hookLog,
                    startup_raised, startups, reported >>
    /\ HealthFrame

\* startup_event lines 205-222, up to the first hook it waits for
HealthStartupBegin ==
    /\ sm_app
    /\ hookPc = 0
    /\ startups < MaxStartups
    /\ startups' = startups + 1
    /\ hookLog' = << >>
    /\ startup_raised' = FALSE
    /\ IF startup_hooks = << >>
       THEN sm_status' = "running" /\ hookPc' = 0
       ELSE hookPc' = 1 /\ UNCHANGED sm_status
    /\ UNCHANGED << sm_app, startup_hooks, health_status, reported >>
    /\ HealthFrame

\* startup_event lines 209-222: the hook at hookPc returns or raises
HealthHookDone(outcome) ==
    /\ hookPc > 0
    /\ hookLog' = Append(hookLog, [ hook |-> startup_hooks[hookPc],
                                    outcome |-> outcome ])
    /\ IF outcome = "raise"
       THEN /\ sm_status' = StatusAfterHookError(sm_status)
            /\ startup_raised' = TRUE
            /\ hookPc' = 0
       ELSE /\ UNCHANGED startup_raised
            /\ IF hookPc < Len(startup_hooks)
               THEN hookPc' = hookPc + 1 /\ UNCHANGED sm_status
               ELSE hookPc' = 0 /\ sm_status' = "running"
    /\ UNCHANGED << sm_app, startup_hooks, health_status, startups, reported >>
    /\ HealthFrame

\* shutdown_event lines 225-229, _handle_signal lines 281-283
HealthShutdownBegin ==
    /\ sm_app
    /\ sm_status' = "stopping"
    /\ UNCHANGED << sm_app, startup_hooks, health_status, hookPc, hookLog,
                    startup_raised, startups, reported >>
    /\ HealthFrame

\* shutdown_event lines 231-243, _handle_signal lines 285-296
HealthShutdownEnd ==
    /\ sm_status = "stopping"
    /\ sm_status' = "stopped"
    /\ UNCHANGED << sm_app, startup_hooks, health_status, hookPc, hookLog,
                    startup_raised, startups, reported >>
    /\ HealthFrame

\* get_health_status lines 173-183
HealthGetHealthStatus ==
    /\ health_status' = HealthOf(sm_status)
    /\ reported' = Some([ status |-> sm_status, health |-> health_status' ])
    /\ UNCHANGED << sm_status, sm_app, startup_hooks, hookPc, hookLog,
                    startup_raised, startups >>
    /\ HealthFrame

HealthNext ==
    \/ HealthSetup
    \/ \E hook \in Hooks : HealthAddStartupHook(hook)
    \/ HealthDiscover
    \/ HealthStartupBegin
    \/ \E outcome \in Outcomes : HealthHookDone(outcome)
    \/ HealthShutdownBegin
    \/ HealthShutdownEnd
    \/ HealthGetHealthStatus

SpecHealth == ViewsInit /\ [][HealthNext]_vars

(***************************************************************************)
(* SpecCbv: class-based views.  APIView.__init_subclass__, setup, register *)
(* and _register_routes, with the view class, the service and the requests *)
(* of tests/test_cbv.py.  A path is the sequence of its segments, and the  *)
(* concatenation of paths is \o.                                           *)
(***************************************************************************)
\* path segments: a literal, the parameter {item_id}, a number in a request
Lit(name) == [ kind |-> "lit", name |-> name, num |-> 0 ]

ItemIdParam == [ kind |-> "param", name |-> "item_id", num |-> 0 ]

Num(n) == [ kind |-> "int", name |-> "", num |-> n ]

\* the functions inspect.getmembers finds on ItemView, in its order (by
\* name), each with the _route_info its decorator left, if any
ItemViewMembers ==
    << [ name |-> "_register_routes", route_info |-> None ],
       [ name |-> "create_item",
         route_info |-> Some([ path |-> << >>, methods |-> Some({ "POST" }),
                               status_code |-> Some(201) ]) ],
       [ name |-> "get_item",
         route_info |-> Some([ path |-> << ItemIdParam >>, methods |-> None,
                               status_code |-> None ]) ],
       [ name |-> "get_items",
         route_info |-> Some([ path |-> << >>, methods |-> None,
                               status_code |-> None ]) ],
       [ name |-> "register", route_info |-> None ] >>

\* __init_subclass__ lines 160-190: cls._routes
RoutesOfMembers(members) ==
    LET decorated == SelectSeq(members, LAMBDA m : m.route_info # None)
    IN  [ i \in DOMAIN decorated |->
            [ path |-> decorated[i].route_info[1].path,
              methods |-> decorated[i].route_info[1].methods,
              status_code |-> decorated[i].route_info[1].status_code,
              endpoint |-> decorated[i].name ] ]

\* the view classes: ItemView, and ItemView with a prefix in router_kwargs
ViewClassDefs ==
    { [ path |-> << Lit("items") >>, router_kwargs |-> kw,
        routes |-> RoutesOfMembers(ItemViewMembers) ] :
      kw \in { None, Some(<< Lit("v2") >>) } }

\* the prefix arguments of setup
Prefixes == { << >>, << Lit("api") >> }

\* register lines 201-206: the prefix of the router
RouterPrefix(prefix, cls) ==
    IF cls.router_kwargs # None THEN cls.router_kwargs[1] ELSE prefix \o cls.path

\* FastAPI's add_api_route: methods None is GET, status_code None is 200
MethodsOrDefault(methods) == IF methods = None THEN { "GET" } ELSE methods[1]

StatusCodeOrDefault(status_code) == IF status_code = None THEN 200 ELSE status_code[1]

\* _register_routes lines 224-268 and app.include_router line 212: the
\* routes one instance adds to the app
RegisteredRoutes(prefix, cls, instance) ==
    [ i \in DOMAIN cls.routes |->
        [ path |-> RouterPrefix(prefix, cls) \o cls.routes[i].path,
          methods |-> MethodsOrDefault(cls.routes[i].methods),
          status_code |-> StatusCodeOrDefault(cls.routes[i].status_code),
          endpoint |-> cls.routes[i].endpoint,
          instance |-> instance ] ]

CbvFrame ==
    UNCHANGED << listeners, lmVars, viewVars, configVars, healthVars, busVars, svcVars >>

\* setup lines 273-303 and register lines 192-215
CbvSetup(cls, prefix) ==
    /\ Len(cbv_setups) < MaxSetups
    /\ LET instance == Len(cbv_setups) + 1
       IN  /\ cbv_setups' = Append(cbv_setups, [ cls |-> cls, prefix |-> prefix,
                                                 instance |-> instance ])
           /\ cbv_routes' = cbv_routes \o RegisteredRoutes(prefix, cls, instance)
    /\ UNCHANGED << service_items, service_counter, cbv_response >>
    /\ CbvFrame

\* the item ids a request may name
ItemIds == 1 .. MaxItems + 1

\* the requests: a method and a path
Requests ==
    { [ method |-> m, path |-> p \o q ] :
        m \in { "GET", "POST" },
        p \in { << Lit("items") >>, << Lit("api"), Lit("items") >>, << Lit("v2") >> },
        q \in { << >> } \cup { << Num(id) >> : id \in ItemIds } }

\* Starlette's routing: the route path matches the request path
PathMatches(route_path, path) ==
    /\ Len(route_path) = Len(path)
    /\ \A i \in DOMAIN path :
          IF route_path[i].kind = "param" THEN path[i].kind = "int"
          ELSE route_path[i] = path[i]

\* Starlette's routing: the first route of the app that matches, or 0
RouteFor(request) ==
    LET matching == { i \in DOMAIN cbv_routes :
                        /\ PathMatches(cbv_routes[i].path, request.path)
                        /\ request.method \in cbv_routes[i].methods }
    IN  IF matching = { } THEN 0
        ELSE CHOOSE i \in matching : \A j \in matching : i <= j

\* the endpoint of _register_routes lines 227-229 calls the method on the
\* instance; the methods are those of tests/test_cbv.py lines 68-95
CbvRequest(request) ==
    /\ cbv_setups # << >>
    /\ LET i == RouteFor(request)
       IN  IF i = 0
           THEN /\ cbv_response' = Some([ request |-> request, status |-> 404,
                                          endpoint |-> "", self |-> 0, item |-> 0 ])
                /\ UNCHANGED << service_items, service_counter >>
           ELSE LET r == cbv_routes[i]
                    answer(code, item) ==
                        Some([ request |-> request, status |-> code,
                               endpoint |-> r.endpoint, self |-> r.instance,
                               item |-> item ])
                IN  CASE r.endpoint = "create_item" ->
                           /\ service_counter < MaxItems
                           /\ service_counter' = service_counter + 1
                           /\ service_items' = service_items \cup { service_counter' }
                           /\ cbv_response' = answer(r.status_code, service_counter')
                      [] r.endpoint = "get_item" ->
                           LET item_id == request.path[Len(request.path)].num
                           IN  /\ cbv_response' =
                                     IF item_id \in service_items
                                     THEN answer(r.status_code, item_id)
                                     ELSE answer(404, 0)
                               /\ UNCHANGED << service_items, service_counter >>
                      [] r.endpoint = "get_items" ->
                           /\ cbv_response' = answer(r.status_code, 0)
                           /\ UNCHANGED << service_items, service_counter >>
    /\ UNCHANGED << cbv_routes, cbv_setups >>
    /\ CbvFrame

CbvNext ==
    \/ \E cls \in ViewClassDefs, prefix \in Prefixes : CbvSetup(cls, prefix)
    \/ \E request \in Requests : CbvRequest(request)

SpecCbv == ViewsInit /\ [][CbvNext]_vars

(***************************************************************************)
(* SpecEvents: EventBus with the handlers of one event type.  Function 1   *)
(* is a plain function, function 2 a coroutine function.                   *)
(***************************************************************************)
HandlerFuncs == 1 .. MaxHandlers

\* EventPriority.NORMAL and EventPriority.HIGH: auto() values 3 and 4
Priorities == { 3, 4 }

\* register line 103: asyncio.iscoroutinefunction(handler)
iscoroutinefunction(func) == func = 2

\* what the body of a handler does with the event
HandlerActs == { "ok", "raise", "cancel" }

\* EventHandler.__eq__ and __hash__ lines 72-78 with set.add: a handler of
\* an equal function is already in the set and stays
AddHandler(handlers, handler) ==
    IF \E h \in handlers : h.func = handler.func THEN handlers
    ELSE handlers \cup { handler }

\* post line 162, post_async line 201: the orders sorted() can give, set
\* iteration order deciding between handlers of equal priority
SortedHandlers(handlers) ==
    { order \in [ 1 .. Cardinality(handlers) -> handlers ] :
        /\ \A i, j \in DOMAIN order : i < j => order[i] # order[j]
        /\ \A i, j \in DOMAIN order : i < j => order[i].priority <= order[j].priority }

\* Event.cancel lines 47-54: the flag after the call, and whether it raised
cancel(ev) ==
    IF ~ev.cancellable THEN [ event |-> ev, raised |-> TRUE ]
    ELSE [ event |-> [ ev EXCEPT !.cancelled = TRUE ], raised |-> FALSE ]

\* post lines 171-174: run_until_complete raises RuntimeError in a thread
\* whose event loop is running, and the coroutine's body is never run
BodyRuns(mode, handler, in_loop) ==
    ~(mode = "post" /\ handler.is_async /\ in_loop)

BusFrame ==
    UNCHANGED << listeners, lmVars, viewVars, configVars, healthVars, cbvVars, svcVars >>

\* register lines 88-115
BusRegister(func, priority) ==
    /\ post_call.pc = 0 \/ post_call.mode = "post_async"
    /\ LET handler == [ func |-> func, priority |-> priority,
                        is_async |-> iscoroutinefunction(func) ]
           present == IF bus_handlers = None THEN { } ELSE bus_handlers[1]
       IN  bus_handlers' = Some(AddHandler(present, handler))
    /\ UNCHANGED << event, post_call, handler_calls, cancelled_at, post_result >>
    /\ BusFrame

\* unregister lines 117-143
BusUnregister(func) ==
    /\ post_call.pc = 0 \/ post_call.mode = "post_async"
    /\ bus_handlers # None
    /\ LET left == { h \in bus_handlers[1] : h.func # func }
       IN  bus_handlers' = IF left = { } THEN None ELSE Some(left)
    /\ UNCHANGED << event, post_call, handler_calls, cancelled_at, post_result >>
    /\ BusFrame

\* post lines 154-162, post_async lines 193-201, with a new event
BusPostBegin(mode, cancellable, in_loop) ==
    /\ post_call.pc = 0
    /\ mode = "post_async" => in_loop
    /\ event' = [ cancellable |-> cancellable, cancelled |-> FALSE ]
    /\ handler_calls' = [ f \in HandlerFuncs |-> 0 ]
    /\ cancelled_at' = 0
    /\ IF bus_handlers = None
       THEN /\ post_result' = Some(TRUE)
            /\ post_call' = [ mode |-> mode, handlers |-> << >>, pc |-> 0,
                              in_loop |-> in_loop ]
       ELSE /\ post_result' = None
            /\ \E order \in SortedHandlers(bus_handlers[1]) :
                  post_call' = [ mode |-> mode, handlers |-> order, pc |-> 1,
                                 in_loop |-> in_loop ]
    /\ UNCHANGED bus_handlers
    /\ BusFrame

\* post lines 165-182, post_async lines 204-221: the handler at pc runs, and
\* the loop goes on to its next check
BusHandlerDone(act) ==
    /\ post_call.pc > 0
    /\ LET handler == post_call.handlers[post_call.pc]
           runs == BodyRuns(post_call.mode, handler, post_call.in_loop)
           after == IF runs /\ act = "cancel" THEN cancel(event).event ELSE event
           last == post_call.pc = Len(post_call.handlers)
       IN  /\ event' = after
           /\ handler_calls' = IF runs
                               THEN [ handler_calls EXCEPT ![handler.func] = @ + 1 ]
                               ELSE handler_calls
           /\ cancelled_at' = IF after.cancelled /\ ~event.cancelled
                              THEN post_call.pc ELSE cancelled_at
           /\ IF after.cancelled \/ last
              THEN /\ post_result' = Some(~after.cancelled)
                   /\ post_call' = [ post_call EXCEPT !.pc = 0 ]
              ELSE /\ post_result' = None
                   /\ post_call' = [ post_call EXCEPT !.pc = @ + 1 ]
    /\ UNCHANGED bus_handlers
    /\ BusFrame

BusNext ==
    \/ \E func \in HandlerFuncs, priority \in Priorities : BusRegister(func, priority)
    \/ \E func \in HandlerFuncs : BusUnregister(func)
    \/ \E mode \in { "post", "post_async" }, cancellable, in_loop \in BOOLEAN : BusPostBegin(mode, cancellable, in_loop)
    \/ \E act \in HandlerActs : BusHandlerDone(act)

SpecEvents == ViewsInit /\ [][BusNext]_vars

(***************************************************************************)
(* Claims                                                                  *)
(***************************************************************************)
Count(s, x) == Cardinality({ i \in 1 .. Len(s) : s[i] = x })
Range(s) == { s[i] : i \in 1 .. Len(s) }
SameBag(s, t) ==
    /\ Len(s) = Len(t)
    /\ \A x \in Range(s) \cup Range(t) : Count(s, x) = Count(t, x)

\* the shutdown order of the component types, as claimed
ClaimedShutdownOrder ==
    << "api", "scheduler", "queue", "other", "cache", "storage", "db", "core" >>
RankOf(ct) == CHOOSE i \in 1 .. Len(ClaimedShutdownOrder) : ClaimedShutdownOrder[i] = ct

\* C3: for listeners registered without a priority, a shutdown event runs the
\* component types in the order API, SCHEDULER, QUEUE, OTHER, CACHE, STORAGE,
\* DATABASE, CORE, and a startup event runs them in the reverse of the order
\* of a shutdown event: of two component types, the one that runs earlier on
\* the startup event runs later on the shutdown event.
C3_StartupReversesShutdown ==
    \A S \in StartupEvents, D \in OrderShutdownEvents :
      /\ \A k, l \in 1 .. Len(listeners[D]) :
            k < l => RankOf(listeners[D][k].component_type)
                       <= RankOf(listeners[D][l].component_type)
      /\ \A i, j \in 1 .. Len(listeners[S]) : \A k, l \in 1 .. Len(listeners[D]) :
            ( /\ i < j
              /\ listeners[S][i].component_type # listeners[S][j].component_type
              /\ listeners[D][k].component_type = listeners[S][i].component_type
              /\ listeners[D][l].component_type = listeners[S][j].component_type )
            => l < k

\* C3 witness: two component types are registered for a startup and for a
\* shutdown event, and run in opposite orders
C3_Witness ==
    \E S \in StartupEvents, D \in OrderShutdownEvents :
      /\ Len(listeners[S]) = 2 /\ Len(listeners[D]) = 2
      /\ listeners[S][1].component_type # listeners[S][2].component_type
      /\ listeners[D][1].component_type = listeners[S][2].component_type
      /\ listeners[D][2].component_type = listeners[S][1].component_type

\* the order claimed for the calls of trigger_event: descending priority,
\* ties by ascending name
InClaimedOrder(s) ==
    \A i, j \in 1 .. Len(s) :
      i < j => \/ s[i].priority > s[j].priority
               \/ s[i].priority = s[j].priority /\ s[i].name <= s[j].name

\* C5 as stated: when trigger_event(E) ends, every listener registered for E
\* at the call was invoked exactly once, in order of descending priority
\* with ties broken by name.
C5_Original ==
    lmState \in { "returned", "raised" } =>
      SameBag(lmCalls, lmRegistered) /\ InClaimedOrder(lmCalls)

\* C5 amended: when trigger_event(E) returns (no listener of a startup event
\* raised) and the list of E was not changed while it ran, every listener
\* registered for E at the call was invoked exactly once, in order of
\* descending priority with ties broken by name, whatever the order of the
\* register and unregister calls before.
C5_TriggerInvokesAllInOrder ==
    (lmState = "returned" /\ ~lmModified) =>
      SameBag(lmCalls, lmRegistered) /\ InClaimedOrder(lmCalls)

\* C5 witness: a trigger returned, its list untouched meanwhile, after
\* invoking two listeners with different callbacks, the higher priority first
C5_Witness ==
    /\ lmState = "returned" /\ ~lmModified
    /\ Len(lmCalls) >= 2
    /\ lmCalls[1].priority > lmCalls[2].priority
    /\ lmCalls[1].id > lmCalls[2].id

\* the entries of kind k in a log, and where an entry is
OfKind(log, k) == SelectSeq(log, LAMBDA e : e.k = k)
EventsOf(log, k) == [ i \in 1 .. Len(OfKind(log, k)) |-> OfKind(log, k)[i].ev ]
IsPrefix(s, t) == Len(s) <= Len(t) /\ \A i \in 1 .. Len(s) : s[i] = t[i]
Places(log, e) == { i \in 1 .. Len(log) : log[i] = e }
CallsOf(log, ev) == { i \in 1 .. Len(log) : log[i].k = "call" /\ log[i].ev = ev }

ClaimedPhases ==
    << "starting", "api_stopping", "services_stopping", "cleanup", "completed" >>

\* C1: in a shutdown flow that was not cancelled, the phases taken so far
\* are STARTING, API_STOPPING, SERVICES_STOPPING, CLEANUP, COMPLETED in that
\* order, none skipped or taken twice, and the phase is the last one taken;
\* the stop of the HTTP server is attempted before any PRE_SERVICES_STOP
\* listener is called; every PRE_SERVICES_STOP and POST_SERVICES_STOP
\* listener has been called before any PRE_CLEANUP listener is called.
C1_PhasesInOrder ==
    "cancelled" \notin Range(EventsOf(sdLog, "phase")) =>
      /\ IsPrefix(EventsOf(sdLog, "phase"), ClaimedPhases)
      /\ phase = IF EventsOf(sdLog, "phase") = << >> THEN "not_started"
                 ELSE EventsOf(sdLog, "phase")[Len(EventsOf(sdLog, "phase"))]
      /\ \A i \in CallsOf(sdLog, "pre_services_stop") :
            \E h \in Places(sdLog, Entry("http_stop", "", 0)) : h < i
      /\ \A i \in CallsOf(sdLog, "pre_cleanup") :
            \A ev \in { "pre_services_stop", "post_services_stop" } :
               /\ \A j \in CallsOf(sdLog, ev) : j < i
               /\ \A l \in Range(listeners[ev]) :
                     \E j \in CallsOf(sdLog, ev) : sdLog[j].id = l.id

\* C1 witness: a flow that was never cancelled went through all the phases,
\* calling listeners of PRE_SERVICES_STOP, POST_SERVICES_STOP and PRE_CLEANUP
C1_Witness ==
    /\ calls.cancel = 0
    /\ EventsOf(sdLog, "phase") = ClaimedPhases
    /\ phase = "completed"
    /\ CallsOf(sdLog, "pre_services_stop") # { }
    /\ CallsOf(sdLog, "post_services_stop") # { }
    /\ CallsOf(sdLog, "pre_cleanup") # { }

ClaimedStartupEvents ==
    << "pre_startup", "pre_http_start", "post_http_start", "post_startup" >>

\* start(block=False) returns, not having raised, in this step
StartReturns == startPc # "returned" /\ startPc' = "returned"

\* the events were triggered in the claimed order, the HTTP server started
\* between PRE_HTTP_START and POST_HTTP_START
StartedInOrder(log) ==
    /\ EventsOf(log, "trigger") = ClaimedStartupEvents
    /\ Cardinality(Places(log, Entry("http_start", "", 0))) = 1
    /\ \A h \in Places(log, Entry("http_start", "", 0)) :
          /\ \A i \in Places(log, Entry("trigger", "pre_http_start", 0)) \cup
                      CallsOf(log, "pre_http_start") : i < h
          /\ \A i \in Places(log, Entry("trigger", "post_http_start", 0)) \cup
                      CallsOf(log, "post_http_start") : h < i

C4_Original ==
    phase = "completed" =>
      \A l \in Range(listeners["pre_shutdown"]) :
         Cardinality({ i \in CallsOf(sdLog, "pre_shutdown") :
                         sdLog[i].id = l.id }) = 1

\* C6: however many calls of trigger_shutdown were made, the shutdown flow
\* has taken each phase, triggered each of its events and called the stop of
\* the HTTP server at most once, for the reason of the first task that ran.
C6_PhasesAtMostOnce ==
    /\ \A e \in Range(sdLog) :
          e.k \in { "phase", "trigger", "http_stop" } => Count(sdLog, e) = 1
    /\ Cardinality(Places(sdLog, Entry("phase", "starting", 0))) =
          IF is_shutting_down THEN 1 ELSE 0

\* C6 witness: a shutdown flow has completed, and a task created by a call
\* made before the flow began has run and was ignored
C6_Witness ==
    /\ calls.ignored >= 1
    /\ phase = "completed"
    /\ EventsOf(sdLog, "phase") = ClaimedPhases

\* C7 as stated: wait_for_shutdown called after trigger_shutdown has returned
\* True only if the phase is COMPLETED.
C7_Original ==
    (waiter.pc = "true" /\ waiter.after_trigger) => phase = "completed"

\* stop returns in this step, from a call that found the service started
\* and no shutdown begun, and so called trigger_shutdown
StopReturnsAfterTrigger ==
    /\ stopPc # "returned" /\ stopPc' = "returned"
    /\ stopLog' # << >>
    /\ stopLog'[1] = Entry("trigger_shutdown", "api_call", 0)

\* C8 as stated: when stop, called on a started service whose shutdown has
\* not begun, returns, the phase is COMPLETED and the HTTP server STOPPED.
C8_Original ==
    [][ StopReturnsAfterTrigger =>
          phase' = "completed" /\ status' = "stopped" ]_vars

\* the i-th call of a listener of event ev in a log
NthCall(log, ev, n) ==
    log[CHOOSE i \in CallsOf(log, ev) :
           Cardinality({ j \in CallsOf(log, ev) : j <= i }) = n]

\* C9: when a listener of a startup event has raised in start, start has
\* raised right after that call: the listeners called for the event are the
\* first ones of its list, up to the one that raised, each once; no event
\* after it was triggered; _started and _stopping are false.
C9_StartupListenerRaises ==
    ( /\ startPc = "raised"
      /\ Len(startLog) >= 2
      /\ startLog[Len(startLog) - 1].k = "call" ) =>
        LET ev == startLog[Len(startLog) - 1].ev
            n == Cardinality(CallsOf(startLog, ev))
            triggered == EventsOf(startLog, "trigger")
        IN  /\ startLog[Len(startLog)] = Entry("raise", ev, 0)
            /\ ~started /\ ~stopping
            /\ n <= Len(listeners[ev])
            /\ \A i \in 1 .. n : NthCall(startLog, ev, i).id = listeners[ev][i].id
            /\ IsPrefix(triggered, ClaimedStartupEvents)
            /\ triggered[Len(triggered)] = ev

\* C9 witness: the first of the two PRE_STARTUP listeners raised: start has
\* raised and the second one was not called
C9_Witness ==
    /\ startPc = "raised"
    /\ Len(listeners["pre_startup"]) = 2
    /\ startLog = << Entry("trigger", "pre_startup", 0),
                     Entry("call", "pre_startup", listeners["pre_startup"][1].id),
                     Entry("raise", "pre_startup", 0) >>
    /\ ~started /\ ~stopping

\* this step is a call of start on a started service, or a call of stop on
\* a service that is not started or is stopping
NoOpCall ==
    \/ calls'.start = calls.start + 1 /\ started
    \/ calls'.stop = calls.stop + 1 /\ (~started \/ stopping)

\* C10: a call of start on a started service, and a call of stop on a
\* service that is not started or is already stopping, change nothing: not
\* the flags of the service, not the HTTP server, not the shutdown manager,
\* and no listener is called.
C10_NoOpCalls ==
    [][ NoOpCall =>
          UNCHANGED << listeners, lmVars, auxVars, cfgVars, apiVars, httpVars, sdVars,
                       signal_handlers, waiter, running >> ]_vars

\* C10 witness: stop was called while an earlier call of stop was stopping
\* the service, which is still at it
C10_Witness ==
    /\ calls.last = "stop_stopping"
    /\ calls.stop >= 2
    /\ stopping /\ stopPc \in { "http_stop", "wait_complete" }

\* C11 as stated: when the service is started, every view class given to
\* register_view is registered on the application exactly once.
C11_Original ==
    started => \A v \in views : routes[v] = 1

C13_Original ==
    \A i \in 1 .. Len(timeout_applied) :
       timeout_applied[i].passed = timeout_applied[i].configured

\* the hooks in hs, each with the outcome "ok"
AllOk(hooks) == [ i \in DOMAIN hooks |-> [ hook |-> hooks[i], outcome |-> "ok" ] ]

\* C14: get_health_status answers "ok" exactly when the status is RUNNING;
\* the status becomes RUNNING only when the startup event has run every
\* startup hook and each returned without error; a startup hook that raises
\* sets the status ERROR, ends the startup event with the exception, and no
\* hook after it is run.
C14_HealthFollowsStartup ==
    [][ /\ (reported' # reported) =>
              (reported'[1].health = "ok" <=> sm_status = "running")
        /\ (sm_status' = "running" /\ sm_status # "running") =>
              hookLog' = AllOk(startup_hooks)
        /\ (hookLog' # hookLog /\ hookLog' # << >>
              /\ hookLog'[Len(hookLog')].outcome = "raise") =>
              /\ sm_status' = "error"
              /\ startup_raised'
              /\ hookPc' = 0
        /\ (hookLog # << >> /\ hookLog[Len(hookLog)].outcome = "raise") =>
              (hookLog' = hookLog \/ hookLog' = << >>) ]_vars

\* C14 witness: the first of two startup hooks raised, the status is ERROR,
\* the second hook was not run, and a health check has answered "error".
C14_Witness ==
    /\ Len(startup_hooks) = 2
    /\ Len(hookLog) = 1
    /\ hookLog[1].outcome = "raise"
    /\ sm_status = "error"
    /\ startup_raised
    /\ reported # None
    /\ reported[1].health = "error"

\* C15 as stated: after setup, every decorated method of the view class is
\* registered exactly once at prefix + class path + route path with its
\* declared methods and status code, bound to the instance setup created;
\* and a request answered by a view method was answered on the instance of
\* the route's setup, a GET of a created item returning it and a GET of an
\* unknown id returning 404.
C15_Original ==
    /\ \A k \in DOMAIN cbv_setups :
          LET su == cbv_setups[k]
          IN  \A m \in Range(SelectSeq(ItemViewMembers, LAMBDA x : x.route_info # None)) :
                 Cardinality({ i \in DOMAIN cbv_routes :
                    /\ cbv_routes[i].instance = su.instance
                    /\ cbv_routes[i].endpoint = m.name
                    /\ cbv_routes[i].path = su.prefix \o su.cls.path \o m.route_info[1].path
                    /\ cbv_routes[i].methods = MethodsOrDefault(m.route_info[1].methods)
                    /\ cbv_routes[i].status_code = StatusCodeOrDefault(m.route_info[1].status_code)
                 }) = 1
    /\ (cbv_response # None /\ cbv_response[1].endpoint = "get_item") =>
          /\ cbv_response[1].self \in { cbv_setups[k].instance : k \in DOMAIN cbv_setups }
          /\ LET item_id == cbv_response[1].request.path[Len(cbv_response[1].request.path)].num
             IN  IF item_id \in service_items
                 THEN cbv_response[1].status = 200 /\ cbv_response[1].item = item_id
                 ELSE cbv_response[1].status = 404

\* C16 as stated: when post or post_async has returned, either a handler
\* cancelled the event, no handler after it was run and the call returned
\* False; or no handler cancelled it, every handler registered for the event
\* type at the call was run exactly once and the call returned True, also
\* when a handler raised.
C16_Original ==
    (post_result # None /\ post_call.handlers # << >>) =>
        IF cancelled_at > 0
        THEN /\ post_result = Some(FALSE)
             /\ \A i \in DOMAIN post_call.handlers :
                   i > cancelled_at => handler_calls[post_call.handlers[i].func] = 0
        ELSE /\ post_result = Some(TRUE)
             /\ \A i \in DOMAIN post_call.handlers :
                   handler_calls[post_call.handlers[i].func] = 1

\* the places of the log where the stop of the HTTP server timed out or
\* ended with an exception
HttpStopFailures ==
    { i \in 1 .. Len(sdLog) :
        sdLog[i].k = "http_stop_done" /\ sdLog[i].ev \in { "timeout", "cancelled" } }

\* C17: the phase is never FAILED on account of the HTTP stop: once the
\* stop of the HTTP server in API_STOPPING has timed out or raised, the
\* phases entered afterwards are SERVICES_STOPPING, CLEANUP and COMPLETED in
\* that order unless the shutdown task itself is cancelled, and a flow that
\* has ended uncancelled has the phase COMPLETED.
C17_HttpStopFailureTolerated ==
    \A i \in HttpStopFailures :
       LET after == EventsOf(SubSeq(sdLog, i + 1, Len(sdLog)), "phase")
       IN  /\ "failed" \notin Range(after) /\ phase # "failed"
           /\ "cancelled" \notin Range(after) =>
                 /\ IsPrefix(after, << "services_stopping", "cleanup", "completed" >>)
                 /\ phase = IF after = << >> THEN "api_stopping" ELSE after[Len(after)]
                 /\ sdPc \in { "completed", "exited" } => phase = "completed"

\* C17 witness: the stop of the HTTP server timed out, and the shutdown went
\* on through SERVICES_STOPPING and CLEANUP to COMPLETED.
C17_Witness ==
    /\ Entry("http_stop_done", "timeout", 0) \in Range(sdLog)
    /\ EventsOf(sdLog, "phase") = ClaimedPhases
    /\ phase = "completed"
    /\ shutdown_complete

====
